---- MODULE Spec2Model ----
(***************************************************************************)
(* Model of the sliver HTTP(S) transport client                            *)
(* (sliver/transports/tcp-http.go) and of the server's port-forward RPC    *)
(* handler (server/rpc/rpc-portfwd.go).                                    *)
(*                                                                         *)
(* Values.  A Go pointer or slice that may be nil is a sequence of length  *)
(* at most one: <<>> is nil, <<v>> holds v.  An error is a string, "nil"   *)
(* being the nil error.  A ciphertext is a record naming the key and the   *)
(* plaintext it was made from, so that decryption under another key, or of *)
(* bytes that are no ciphertext, fails.                                    *)
(***************************************************************************)
EXTENDS Integers, Sequences, FiniteSets, TLC

\* ------------------------------------------------------------------ bounds

\* Number of session keys RandomAESKey may hand out in one behaviour.
MaxKeys == 3

\* Number of rpcPortfwd calls that may run concurrently.
MaxCalls == 2

\* Clock ticks that make up the rpc package's defaultTimeout.
rpcTimeoutTicks == 2

\* ------------------------------------------------------- program constants

defaultTimeout == 10
defaultReqTimeout == 60
StatusOK == 200

\* ------------------------------------------------------------ basic values

NoErr == "nil"
NilPtr == <<>>
NilBytes == <<>>
Ptr(v) == <<v>>
Bytes(b) == <<b>>

Addresses == {"c2.example", "10.1.1.1"}
UrlPaths == {"/poll"}
SessionIDs == {"", "abc123"}
Payloads == {"", "tasks"}
PostData == {"result"}
Statuses == {StatusOK, 404}
SessionStatuses == {StatusOK, 204, 404}

\* ---------------------------------------------------------- CryptoPrimitives

\* RandomAESKey: a key no earlier call returned; nk counts the keys handed out.
RandomAESKey(nk) == nk + 1

\* proto.Marshal(&pb.HTTPSessionInit{Key: skey[:]})
MarshalSessionInit(skey) == [msg |-> "HTTPSessionInit", Key |-> skey]

\* RSAEncrypt(data, publicKey): OAEP fails when the modulus is too short
\* for the message.
RSAEncrypt(data, publicKey) ==
    IF publicKey = "rsa-short"
    THEN [out |-> NilBytes, err |-> "rsa: message too long"]
    ELSE [out |-> Bytes([kind |-> "rsa", pub |-> publicKey, data |-> data]),
          err |-> NoErr]

\* GCMEncrypt(key, plaintext) when it succeeds.
GCMSeal(key, plaintext) == [kind |-> "gcm", k |-> key, pt |-> plaintext]

\* GCMEncrypt(key, plaintext): encFail is the failure of the nonce source.
GCMEncrypt(key, plaintext, encFail) ==
    IF encFail
    THEN [out |-> NilBytes, err |-> "gcm: nonce"]
    ELSE [out |-> Bytes(GCMSeal(key, plaintext)), err |-> NoErr]

\* GCMDecrypt(key, ciphertext): plaintext only for a ciphertext made under
\* the same key; no bytes on failure.
GCMDecrypt(key, ciphertext) ==
    IF ciphertext.kind = "gcm" /\ ciphertext.k = key
    THEN [out |-> Bytes(ciphertext.pt), err |-> NoErr]
    ELSE [out |-> NilBytes, err |-> "cipher: message authentication failed"]

\* ------------------------------------------------ PinnedCertificateVerifier

\* pem.Decode(data): the block, or nil when data holds no PEM block.
pemDecode(data) == IF data.kind = "pem" THEN Ptr(data.cert) ELSE NilPtr

\* rootOnlyVerifyCertificate: nil error only for a leaf signed by the
\* embedded root.
rootOnlyVerifyCertificate(cert) ==
    IF cert.signedBy = "root" THEN NoErr ELSE "x509: unknown authority"

\* ------------------------------------------------------------- the network

\* Events a call leaves in its trace: a request sent with s.Client.Do and
\* what Do returned for it, a key drawn, a GCMDecrypt made.
EvReq(method, url, body, resp) ==
    [ev |-> "request", method |-> method, url |-> url, body |-> body,
     resp |-> resp]
EvKeygen(k) == [ev |-> "keygen", k |-> k]
EvDecrypt(k, ct) == [ev |-> "decrypt", k |-> k, ct |-> ct]

RawBody == [kind |-> "raw"]
PemBody(signedBy, pub) ==
    [kind |-> "pem", cert |-> [signedBy |-> signedBy, PublicKey |-> pub]]

\* What s.Client.Do may return: a transport error, or a status and a body.
TransportFailure ==
    [err |-> "dial tcp: i/o timeout", StatusCode |-> 0, Body |-> RawBody]
Response(status, body) == [err |-> NoErr, StatusCode |-> status, Body |-> body]

\* Answers to GET /rsakey.
KeyFetchBodies ==
    {PemBody("root", "rsa-2048"), PemBody("root", "rsa-short"),
     PemBody("other", "rsa-2048"), RawBody}
KeyFetchResponses ==
    {TransportFailure, Response(404, PemBody("root", "rsa-2048"))}
    \cup {Response(StatusOK, b) : b \in KeyFetchBodies}

\* Answers to POST /start, before the peer has seen the wrapped key: the
\* peer seals a session ID under the key it unwrapped ("sid"), answers with
\* a ciphertext under a key of its own ("stale") or with other bytes.
StartAnswers ==
    {[err |-> "dial tcp: i/o timeout", StatusCode |-> 0, kind |-> "junk", sid |-> ""]}
    \cup {[err |-> NoErr, StatusCode |-> st, kind |-> "sid", sid |-> id] :
            st \in Statuses, id \in SessionIDs}
    \cup {[err |-> NoErr, StatusCode |-> st, kind |-> k, sid |-> "abc123"] :
            st \in Statuses, k \in {"stale", "junk"}}
DefaultStartAnswer ==
    [err |-> "dial tcp: i/o timeout", StatusCode |-> 0, kind |-> "junk", sid |-> ""]

\* The peer's answer to the request body it received on /start.
PeerStart(answer, wrapped) ==
    IF answer.err # NoErr THEN TransportFailure
    ELSE Response(answer.StatusCode,
            CASE answer.kind = "sid" -> GCMSeal(wrapped[1].data.Key, answer.sid)
              [] answer.kind = "stale" -> GCMSeal(0, answer.sid)
              [] OTHER -> RawBody)

\* A ciphertext with a byte changed in transit.
Tampered(ciphertext) == [ciphertext EXCEPT !.kind = "gcm-tampered"]

\* Answers to a session-scoped request of a client holding keyPtr.
SessionBodies(keyPtr) ==
    {GCMSeal(0, "tasks"), RawBody}
    \cup {GCMSeal(keyPtr[i], p) : i \in 1..Len(keyPtr), p \in Payloads}
    \cup {Tampered(GCMSeal(keyPtr[i], "tasks")) : i \in 1..Len(keyPtr)}
SessionResponses(keyPtr) ==
    {TransportFailure}
    \cup {Response(st, b) : st \in SessionStatuses, b \in SessionBodies(keyPtr)}

\* One handshake attempt's inputs: the answer to the key fetch and the
\* answer to the session request.  The second is read only when the key
\* fetch yields a public key that wraps the session key.
ReachesStart(rsakey) ==
    /\ rsakey.err = NoErr
    /\ rsakey.StatusCode = StatusOK
    /\ rsakey.Body = PemBody("root", "rsa-2048")
AttemptInputs ==
    {e \in [rsakey : KeyFetchResponses, start : StartAnswers] :
        ReachesStart(e.rsakey) \/ e.start = DefaultStartAnswer}

\* -------------------------------------------------------- SliverHTTPClient

httpClient(address) ==
    [Origin |-> [scheme |-> "http", host |-> address],
     Client |-> [Timeout |-> defaultReqTimeout, DialTimeout |-> 0],
     SessionKey |-> NilPtr,
     SessionID |-> ""]

httpsClient(address) ==
    [Origin |-> [scheme |-> "https", host |-> address],
     Client |-> [Timeout |-> defaultReqTimeout, DialTimeout |-> defaultTimeout],
     SessionKey |-> NilPtr,
     SessionID |-> ""]

toURL(s, urlPath) ==
    [scheme |-> s.Origin.scheme, host |-> s.Origin.host, path |-> urlPath]

\* getPublicKey returning the key of any certificate that parses.
getPublicKey_SkipsVerifier(s, resp) ==
    LET req == EvReq("GET", toURL(s, "/rsakey"), NilBytes, resp)
        pubKeyBlock == pemDecode(resp.Body)
    IN  IF resp.err # NoErr \/ resp.StatusCode # StatusOK
        THEN [key |-> NilPtr, trace |-> <<req>>]
        ELSE IF pubKeyBlock = NilPtr
        THEN [key |-> NilPtr, trace |-> <<req>>]
        ELSE [key |-> Ptr(pubKeyBlock[1].PublicKey), trace |-> <<req>>]

\* getPublicKey: the public key, or nil; trace holds the request made.
getPublicKey(s, resp) ==
    LET req == EvReq("GET", toURL(s, "/rsakey"), NilBytes, resp)
        pubKeyBlock == pemDecode(resp.Body)
    IN  IF resp.err # NoErr \/ resp.StatusCode # StatusOK
        THEN [key |-> NilPtr, trace |-> <<req>>]
        ELSE IF pubKeyBlock = NilPtr
        THEN [key |-> NilPtr, trace |-> <<req>>]
        ELSE IF rootOnlyVerifyCertificate(pubKeyBlock[1]) = NoErr
        THEN [key |-> Ptr(pubKeyBlock[1].PublicKey), trace |-> <<req>>]
        ELSE [key |-> NilPtr, trace |-> <<req>>]

\* getSessionID: POST the wrapped key to /start and decrypt the answer
\* under s.SessionKey.  answer is what the peer will do with the request.
getSessionID(s, sessionInit, answer) ==
    LET resp == PeerStart(answer, sessionInit)
        req == EvReq("POST", toURL(s, "/start"), sessionInit, resp)
        dec == GCMDecrypt(s.SessionKey[1], resp.Body)
        ev == EvDecrypt(s.SessionKey[1], resp.Body)
    IN  IF resp.err # NoErr
        THEN [s |-> s, err |-> resp.err, trace |-> <<req>>]
        ELSE IF dec.err # NoErr
        THEN [s |-> s, err |-> dec.err, trace |-> <<req, ev>>]
        ELSE [s |-> [s EXCEPT !.SessionID = dec.out[1]],
              err |-> NoErr, trace |-> <<req, ev>>]

\* SessionInit keeping the SessionKey the client already holds.
SessionInit_ReusesKey(s, nk, in) ==
    LET publicKey == getPublicKey(s, in.rsakey)
        reuse == s.SessionKey # NilPtr
        skey == IF reuse THEN s.SessionKey[1] ELSE RandomAESKey(nk)
        gen == IF reuse THEN <<>> ELSE <<EvKeygen(skey)>>
        nk1 == IF reuse THEN nk ELSE nk + 1
        s1 == [s EXCEPT !.SessionKey = Ptr(skey)]
        data == MarshalSessionInit(skey)
        enc == RSAEncrypt(data, publicKey.key[1])
        got == getSessionID(s1, enc.out, in.start)
    IN  IF publicKey.key = NilPtr
        THEN [s |-> s, err |-> "error", trace |-> publicKey.trace, nk |-> nk]
        ELSE IF enc.err # NoErr
        THEN [s |-> s1, err |-> enc.err,
              trace |-> publicKey.trace \o gen, nk |-> nk1]
        ELSE [s |-> got.s, err |-> got.err,
              trace |-> publicKey.trace \o gen \o got.trace,
              nk |-> nk1]

\* SessionInit on client s, nk keys having been generated before.
SessionInit(s, nk, in) ==
    LET publicKey == getPublicKey(s, in.rsakey)
        skey == RandomAESKey(nk)
        s1 == [s EXCEPT !.SessionKey = Ptr(skey)]
        data == MarshalSessionInit(skey)
        enc == RSAEncrypt(data, publicKey.key[1])
        got == getSessionID(s1, enc.out, in.start)
    IN  IF publicKey.key = NilPtr
        THEN [s |-> s, err |-> "error", trace |-> publicKey.trace, nk |-> nk]
        ELSE IF enc.err # NoErr
        THEN [s |-> s1, err |-> enc.err,
              trace |-> publicKey.trace \o <<EvKeygen(skey)>>, nk |-> nk + 1]
        ELSE [s |-> got.s, err |-> got.err,
              trace |-> publicKey.trace \o <<EvKeygen(skey)>> \o got.trace,
              nk |-> nk + 1]

\* HTTPStartSession with the fallback client built by httpsClient.
HTTPStartSession_FallbackHTTPS(address, nk, in1, in2) ==
    LET first == SessionInit(httpsClient(address), nk, in1)
        second == SessionInit(httpsClient(address), first.nk, in2)
        a1 == [s |-> first.s, err |-> first.err, trace |-> first.trace]
        a2 == [s |-> second.s, err |-> second.err, trace |-> second.trace]
    IN  IF first.err # NoErr
        THEN IF second.err # NoErr
             THEN [client |-> NilPtr, err |-> second.err,
                   attempts |-> <<a1, a2>>, nk |-> second.nk]
             ELSE [client |-> Ptr(second.s), err |-> NoErr,
                   attempts |-> <<a1, a2>>, nk |-> second.nk]
        ELSE [client |-> Ptr(first.s), err |-> NoErr,
              attempts |-> <<a1>>, nk |-> first.nk]

\* HTTPStartSession returning the first attempt's error when both fail.
HTTPStartSession_FirstError(address, nk, in1, in2) ==
    LET first == SessionInit(httpsClient(address), nk, in1)
        second == SessionInit(httpClient(address), first.nk, in2)
        a1 == [s |-> first.s, err |-> first.err, trace |-> first.trace]
        a2 == [s |-> second.s, err |-> second.err, trace |-> second.trace]
    IN  IF first.err # NoErr
        THEN IF second.err # NoErr
             THEN [client |-> NilPtr, err |-> first.err,
                   attempts |-> <<a1, a2>>, nk |-> second.nk]
             ELSE [client |-> Ptr(second.s), err |-> NoErr,
                   attempts |-> <<a1, a2>>, nk |-> second.nk]
        ELSE [client |-> Ptr(first.s), err |-> NoErr,
              attempts |-> <<a1>>, nk |-> first.nk]

\* HTTPStartSession returning the fallback client along with the error when
\* both attempts fail.
HTTPStartSession_ClientWithError(address, nk, in1, in2) ==
    LET first == SessionInit(httpsClient(address), nk, in1)
        second == SessionInit(httpClient(address), first.nk, in2)
        a1 == [s |-> first.s, err |-> first.err, trace |-> first.trace]
        a2 == [s |-> second.s, err |-> second.err, trace |-> second.trace]
    IN  IF first.err # NoErr
        THEN IF second.err # NoErr
             THEN [client |-> Ptr(second.s), err |-> second.err,
                   attempts |-> <<a1, a2>>, nk |-> second.nk]
             ELSE [client |-> Ptr(second.s), err |-> NoErr,
                   attempts |-> <<a1, a2>>, nk |-> second.nk]
        ELSE [client |-> Ptr(first.s), err |-> NoErr,
              attempts |-> <<a1>>, nk |-> first.nk]

\* HTTPStartSession(address): client is nil or the client returned;
\* attempts lists each SessionInit made, in order.
HTTPStartSession(address, nk, in1, in2) ==
    LET first == SessionInit(httpsClient(address), nk, in1)
        second == SessionInit(httpClient(address), first.nk, in2)
        a1 == [s |-> first.s, err |-> first.err, trace |-> first.trace]
        a2 == [s |-> second.s, err |-> second.err, trace |-> second.trace]
    IN  IF first.err # NoErr
        THEN IF second.err # NoErr
             THEN [client |-> NilPtr, err |-> second.err,
                   attempts |-> <<a1, a2>>, nk |-> second.nk]
             ELSE [client |-> Ptr(second.s), err |-> NoErr,
                   attempts |-> <<a1, a2>>, nk |-> second.nk]
        ELSE [client |-> Ptr(first.s), err |-> NoErr,
              attempts |-> <<a1>>, nk |-> first.nk]

\* Get returning the response body as it was received.
Get_ReturnsRespData(s, urlPath, resp) ==
    LET req == EvReq("GET", toURL(s, urlPath), NilBytes, resp)
        ev == EvDecrypt(s.SessionKey[1], resp.Body)
    IN  IF s.SessionID = "" \/ s.SessionKey = NilPtr
        THEN [out |-> NilBytes, err |-> "no session", trace |-> <<>>]
        ELSE IF resp.err # NoErr
        THEN [out |-> NilBytes, err |-> resp.err, trace |-> <<req>>]
        ELSE IF resp.StatusCode # StatusOK
        THEN [out |-> NilBytes, err |-> "Non-200 response code", trace |-> <<req>>]
        ELSE [out |-> Bytes(resp.Body), err |-> NoErr, trace |-> <<req, ev>>]

\* Get with a precondition that looks at the SessionKey alone.
Get_KeyOnlyPrecondition(s, urlPath, resp) ==
    LET req == EvReq("GET", toURL(s, urlPath), NilBytes, resp)
        dec == GCMDecrypt(s.SessionKey[1], resp.Body)
        ev == EvDecrypt(s.SessionKey[1], resp.Body)
    IN  IF s.SessionKey = NilPtr
        THEN [out |-> NilBytes, err |-> "no session", trace |-> <<>>]
        ELSE IF resp.err # NoErr
        THEN [out |-> NilBytes, err |-> resp.err, trace |-> <<req>>]
        ELSE IF resp.StatusCode # StatusOK
        THEN [out |-> NilBytes, err |-> "Non-200 response code", trace |-> <<req>>]
        ELSE [out |-> dec.out, err |-> dec.err, trace |-> <<req, ev>>]

\* Get(urlPath) on client s; resp is what s.Client.Do returns if called.
Get(s, urlPath, resp) ==
    LET req == EvReq("GET", toURL(s, urlPath), NilBytes, resp)
        dec == GCMDecrypt(s.SessionKey[1], resp.Body)
        ev == EvDecrypt(s.SessionKey[1], resp.Body)
    IN  IF s.SessionID = "" \/ s.SessionKey = NilPtr
        THEN [out |-> NilBytes, err |-> "no session", trace |-> <<>>]
        ELSE IF resp.err # NoErr
        THEN [out |-> NilBytes, err |-> resp.err, trace |-> <<req>>]
        ELSE IF resp.StatusCode # StatusOK
        THEN [out |-> NilBytes, err |-> "Non-200 response code", trace |-> <<req>>]
        ELSE [out |-> dec.out, err |-> dec.err, trace |-> <<req, ev>>]

\* Post sending the request a second time when the first send fails.
Post_RetriesOnFailure(s, urlPath, data, encFail, resp) ==
    LET enc == GCMEncrypt(s.SessionKey[1], data, encFail)
        req == EvReq("POST", toURL(s, urlPath), enc.out, resp)
        dec == GCMDecrypt(s.SessionKey[1], resp.Body)
        ev == EvDecrypt(s.SessionKey[1], resp.Body)
    IN  IF s.SessionID = "" \/ s.SessionKey = NilPtr
        THEN [out |-> NilBytes, err |-> "no session", trace |-> <<>>]
        ELSE IF resp.err # NoErr
        THEN [out |-> NilBytes, err |-> resp.err, trace |-> <<req, req>>]
        ELSE IF resp.StatusCode # StatusOK
        THEN [out |-> NilBytes, err |-> "Non-200 response code", trace |-> <<req>>]
        ELSE [out |-> dec.out, err |-> dec.err, trace |-> <<req, ev>>]

\* Post taking every 2xx status for success.
Post_Accepts2xx(s, urlPath, data, encFail, resp) ==
    LET enc == GCMEncrypt(s.SessionKey[1], data, encFail)
        req == EvReq("POST", toURL(s, urlPath), enc.out, resp)
        dec == GCMDecrypt(s.SessionKey[1], resp.Body)
        ev == EvDecrypt(s.SessionKey[1], resp.Body)
    IN  IF s.SessionID = "" \/ s.SessionKey = NilPtr
        THEN [out |-> NilBytes, err |-> "no session", trace |-> <<>>]
        ELSE IF resp.err # NoErr
        THEN [out |-> NilBytes, err |-> resp.err, trace |-> <<req>>]
        ELSE IF resp.StatusCode >= 300
        THEN [out |-> NilBytes, err |-> "Non-200 response code", trace |-> <<req>>]
        ELSE [out |-> dec.out, err |-> dec.err, trace |-> <<req, ev>>]

\* Post(urlPath, data) on client s.  The error of GCMEncrypt is overwritten
\* by the error of s.Client.Do: the request is sent with whatever reqData
\* GCMEncrypt returned.
Post(s, urlPath, data, encFail, resp) ==
    LET enc == GCMEncrypt(s.SessionKey[1], data, encFail)
        req == EvReq("POST", toURL(s, urlPath), enc.out, resp)
        dec == GCMDecrypt(s.SessionKey[1], resp.Body)
        ev == EvDecrypt(s.SessionKey[1], resp.Body)
    IN  IF s.SessionID = "" \/ s.SessionKey = NilPtr
        THEN [out |-> NilBytes, err |-> "no session", trace |-> <<>>]
        ELSE IF resp.err # NoErr
        THEN [out |-> NilBytes, err |-> resp.err, trace |-> <<req>>]
        ELSE IF resp.StatusCode # StatusOK
        THEN [out |-> NilBytes, err |-> "Non-200 response code", trace |-> <<req>>]
        ELSE [out |-> dec.out, err |-> dec.err, trace |-> <<req, ev>>]

\* ------------------------------------------------- rpcPortfwd (server/rpc)

SliverIDs == {1, 2, 3}
TunnelIDs == {7, 8}
Hosts == {"10.0.0.5", "bad-utf8"}
Ports == {8080}
Replies == {"", "listening"}

PortFwdReq(host, port, sliverID, tunnelID) ==
    [Host |-> host, Port |-> port, SliverID |-> sliverID, TunnelID |-> tunnelID]

\* proto.Marshal of a PortFwdReq: fails on a string field that is not UTF-8.
protoMarshal(m) ==
    IF m.Host = "bad-utf8"
    THEN [out |-> NilBytes, err |-> "proto: invalid UTF-8 string"]
    ELSE [out |-> Bytes([kind |-> "pb", msg |-> m]), err |-> NoErr]

\* proto.Unmarshal into a fresh PortFwdReq: bytes that hold no message leave
\* the zero value (the error is not looked at).
protoUnmarshal(req) ==
    IF req # NilBytes /\ req[1].kind = "pb" THEN req[1].msg
    ELSE PortFwdReq("", 0, 0, 0)

\* What the RPC layer may hand to rpcPortfwd.
InboundRequests ==
    {Bytes([kind |-> "pb", msg |-> PortFwdReq(h, p, s, tn)]) :
        h \in Hosts, p \in Ports, s \in SliverIDs, tn \in TunnelIDs}
    \cup {Bytes([kind |-> "raw"])}

\* core.Hive.Sliver(id) and core.Tunnels.Tunnel(id): the handle registered
\* under id, nil when there is none.
HiveSliver(hive, id) ==
    IF \E h \in hive : h.ID = id
    THEN Ptr(CHOOSE h \in hive : h.ID = id) ELSE NilPtr
TunnelsTunnel(tunnels, id) ==
    IF \E h \in tunnels : h.ID = id
    THEN Ptr(CHOOSE h \in tunnels : h.ID = id) ELSE NilPtr

IdleCall ==
    [pc |-> "idle", req |-> NilBytes, sent |-> <<>>, waited |-> 0,
     ret |-> <<>>, resp |-> <<>>]

\* rpcPortfwd filling SliverID and TunnelID of the scoped request crosswise.
rpcPortfwdBegin_SwapsIDs(c, req, hive, tunnels) ==
    LET pfwdReq == protoUnmarshal(req)
        sliver == HiveSliver(hive, pfwdReq.SliverID)
        tunnel == TunnelsTunnel(tunnels, pfwdReq.TunnelID)
        startPortFwdReq ==
            protoMarshal(PortFwdReq(pfwdReq.Host, pfwdReq.Port,
                                    tunnel[1].ID, sliver[1].ID))
    IN  IF sliver = NilPtr \/ tunnel = NilPtr
        THEN [c EXCEPT !.pc = "panic", !.req = req]
        ELSE IF startPortFwdReq.err # NoErr
        THEN [c EXCEPT !.pc = "done", !.req = req,
                       !.resp = Append(@, [data |-> Bytes(""),
                                           err |-> startPortFwdReq.err])]
        ELSE [c EXCEPT !.pc = "waiting", !.req = req,
                       !.sent = Append(@, [to |-> sliver[1].ID,
                                           msgType |-> "MsgPortfwdReq",
                                           timeout |-> rpcTimeoutTicks,
                                           data |-> startPortFwdReq.out])]

\* rpcPortfwd handing sliver.Request a zero timeout.
rpcPortfwdBegin_ZeroTimeout(c, req, hive, tunnels) ==
    LET pfwdReq == protoUnmarshal(req)
        sliver == HiveSliver(hive, pfwdReq.SliverID)
        tunnel == TunnelsTunnel(tunnels, pfwdReq.TunnelID)
        startPortFwdReq ==
            protoMarshal(PortFwdReq(pfwdReq.Host, pfwdReq.Port,
                                    sliver[1].ID, tunnel[1].ID))
    IN  IF sliver = NilPtr \/ tunnel = NilPtr
        THEN [c EXCEPT !.pc = "panic", !.req = req]
        ELSE IF startPortFwdReq.err # NoErr
        THEN [c EXCEPT !.pc = "done", !.req = req,
                       !.resp = Append(@, [data |-> Bytes(""),
                                           err |-> startPortFwdReq.err])]
        ELSE [c EXCEPT !.pc = "waiting", !.req = req,
                       !.sent = Append(@, [to |-> sliver[1].ID,
                                           msgType |-> "MsgPortfwdReq",
                                           timeout |-> 0,
                                           data |-> startPortFwdReq.out])]

\* rpcPortfwd up to the point where sliver.Request blocks (lines 13-30).
\* Reading sliver.ID or tunnel.ID through a nil handle panics: the handler
\* ends there, the callback not invoked.
rpcPortfwdBegin(c, req, hive, tunnels) ==
    LET pfwdReq == protoUnmarshal(req)
        sliver == HiveSliver(hive, pfwdReq.SliverID)
        tunnel == TunnelsTunnel(tunnels, pfwdReq.TunnelID)
        startPortFwdReq ==
            protoMarshal(PortFwdReq(pfwdReq.Host, pfwdReq.Port,
                                    sliver[1].ID, tunnel[1].ID))
    IN  IF sliver = NilPtr \/ tunnel = NilPtr
        THEN [c EXCEPT !.pc = "panic", !.req = req]
        ELSE IF startPortFwdReq.err # NoErr
        THEN [c EXCEPT !.pc = "done", !.req = req,
                       !.resp = Append(@, [data |-> Bytes(""),
                                           err |-> startPortFwdReq.err])]
        ELSE [c EXCEPT !.pc = "waiting", !.req = req,
                       !.sent = Append(@, [to |-> sliver[1].ID,
                                           msgType |-> "MsgPortfwdReq",
                                           timeout |-> rpcTimeoutTicks,
                                           data |-> startPortFwdReq.out])]

\* rpcPortfwd passing a nil error to the callback whatever Request returned.
rpcPortfwdReturn_DropsError(c, data, err) ==
    [c EXCEPT !.pc = "done",
              !.ret = Append(@, [data |-> data, err |-> err]),
              !.resp = Append(@, [data |-> data, err |-> NoErr])]

\* rpcPortfwd after sliver.Request returned (data, err) (lines 30-31).
rpcPortfwdReturn(c, data, err) ==
    [c EXCEPT !.pc = "done",
              !.ret = Append(@, [data |-> data, err |-> err]),
              !.resp = Append(@, [data |-> data, err |-> err])]

\* ------------------------------------------------------------------- state

VARIABLES
    held,   \* the *SliverHTTPClient the caller holds: <<>> is nil
    nk,     \* number of session keys RandomAESKey has generated
    last,   \* the last call made: its receiver before the call, its
            \* results, and the requests and decryptions it performed
    hive,   \* core.Hive: the implant handles registered
    tunnels,\* core.Tunnels: the tunnel handles registered
    calls   \* the rpcPortfwd calls: position, request, messages sent to
            \* implants, what sliver.Request returned, callback invocations

httpVars == <<held, nk, last>>
rpcVars == <<hive, tunnels, calls>>
vars == <<held, nk, last, hive, tunnels, calls>>

Call(op, arg, pre, client, out, err, trace, attempts, encFail) ==
    [op |-> op, arg |-> arg, pre |-> pre, client |-> client, out |-> out,
     err |-> err,
     trace |-> trace, attempts |-> attempts, encFail |-> encFail]

Calls == 1..MaxCalls

InitRPC ==
    /\ hive = {[ID |-> 1], [ID |-> 2]}
    /\ tunnels = {[ID |-> 7]}
    /\ calls = [p \in Calls |-> IdleCall]

InitHTTP ==
    /\ held = NilPtr
    /\ nk = 0
    /\ last = Call("none", "", NilPtr, NilPtr, NilBytes, NoErr, <<>>, <<>>, FALSE)

\* The inputs of the fallback attempt: read only when the first attempt
\* fails.
FallbackInputs(address, n, in1) ==
    IF SessionInit(httpsClient(address), n, in1).err = NoErr
    THEN {in1} ELSE AttemptInputs

\* A caller builds a client without starting a session.
NewClient ==
    \E address \in Addresses, mk \in {"http", "https"} :
        LET s == IF mk = "http" THEN httpClient(address) ELSE httpsClient(address)
        IN  /\ held' = Ptr(s)
            /\ last' = Call("new", address, NilPtr, Ptr(s), NilBytes, NoErr, <<>>, <<>>, FALSE)
            /\ UNCHANGED nk
            /\ UNCHANGED rpcVars

CallHTTPStartSession ==
    /\ nk + 2 <= MaxKeys
    /\ \E address \in Addresses, in1 \in AttemptInputs :
        \E in2 \in FallbackInputs(address, nk, in1) :
        LET r == HTTPStartSession(address, nk, in1, in2)
        IN  /\ held' = r.client
            /\ nk' = r.nk
            /\ last' = Call("HTTPStartSession", address, NilPtr, r.client, NilBytes, r.err,
                            <<>>, r.attempts, FALSE)
            /\ UNCHANGED rpcVars

CallSessionInit ==
    /\ held # NilPtr
    /\ nk + 1 <= MaxKeys
    /\ \E in \in AttemptInputs :
        LET r == SessionInit(held[1], nk, in)
        IN  /\ held' = Ptr(r.s)
            /\ nk' = r.nk
            /\ last' = Call("SessionInit", "", held, Ptr(r.s), NilBytes, r.err,
                            r.trace, <<>>, FALSE)
            /\ UNCHANGED rpcVars

\* Get forgetting the SessionID when the call fails.
CallGet_DropsSessionOnError ==
    /\ held # NilPtr
    /\ \E urlPath \in UrlPaths, resp \in SessionResponses(held[1].SessionKey) :
        LET r == Get(held[1], urlPath, resp)
        IN  /\ last' = Call("Get", urlPath, held, held, r.out, r.err, r.trace, <<>>, FALSE)
            /\ held' = IF r.err = NoErr THEN held
                       ELSE Ptr([held[1] EXCEPT !.SessionID = ""])
            /\ UNCHANGED nk
            /\ UNCHANGED rpcVars

CallGet ==
    /\ held # NilPtr
    /\ \E urlPath \in UrlPaths, resp \in SessionResponses(held[1].SessionKey) :
        LET r == Get(held[1], urlPath, resp)
        IN  /\ last' = Call("Get", urlPath, held, held, r.out, r.err, r.trace, <<>>, FALSE)
            /\ UNCHANGED <<held, nk>>
            /\ UNCHANGED rpcVars

CallPost ==
    /\ held # NilPtr
    /\ \E urlPath \in UrlPaths, data \in PostData, encFail \in BOOLEAN,
          resp \in SessionResponses(held[1].SessionKey) :
        LET r == Post(held[1], urlPath, data, encFail, resp)
        IN  /\ last' = Call("Post", urlPath, held, held, r.out, r.err, r.trace, <<>>, encFail)
            /\ UNCHANGED <<held, nk>>
            /\ UNCHANGED rpcVars

NextHTTP ==
    \/ NewClient
    \/ CallHTTPStartSession
    \/ CallSessionInit
    \/ CallGet
    \/ CallPost

\* rpcPortfwd entered only while no other call is blocked in sliver.Request.
CallRpcPortfwd_Serialized(p) ==
    /\ calls[p].pc = "idle"
    /\ \A q \in Calls : calls[q].pc # "waiting"
    /\ \E req \in InboundRequests :
        calls' = [calls EXCEPT ![p] = rpcPortfwdBegin(@, req, hive, tunnels)]
    /\ UNCHANGED <<hive, tunnels>>
    /\ UNCHANGED httpVars

\* A caller invokes rpcPortfwd(req, resp).
CallRpcPortfwd(p) ==
    /\ calls[p].pc = "idle"
    /\ \E req \in InboundRequests :
        calls' = [calls EXCEPT ![p] = rpcPortfwdBegin(@, req, hive, tunnels)]
    /\ UNCHANGED <<hive, tunnels>>
    /\ UNCHANGED httpVars

\* The timeout the blocked call p handed to sliver.Request.
RequestTimeoutOf(p) == calls[p].sent[Len(calls[p].sent)].timeout

\* Time passes for a call blocked in sliver.Request.
Tick(p) ==
    /\ calls[p].pc = "waiting"
    /\ calls[p].waited < RequestTimeoutOf(p)
    /\ calls' = [calls EXCEPT ![p].waited = @ + 1]
    /\ UNCHANGED <<hive, tunnels>>
    /\ UNCHANGED httpVars

\* The implant's reply arrives before the timeout: sliver.Request returns
\* (reply, nil).
RequestReply(p) ==
    /\ calls[p].pc = "waiting"
    /\ calls[p].waited < RequestTimeoutOf(p)
    /\ \E data \in Replies :
        calls' = [calls EXCEPT ![p] = rpcPortfwdReturn(@, Bytes(data), NoErr)]
    /\ UNCHANGED <<hive, tunnels>>
    /\ UNCHANGED httpVars

\* The timeout elapses first: sliver.Request returns (nil, timeout).
RequestTimeout(p) ==
    /\ calls[p].pc = "waiting"
    /\ calls[p].waited = RequestTimeoutOf(p)
    /\ calls' = [calls EXCEPT ![p] = rpcPortfwdReturn(@, NilBytes, "timeout")]
    /\ UNCHANGED <<hive, tunnels>>
    /\ UNCHANGED httpVars

NextRPC ==
    \E p \in Calls :
        \/ CallRpcPortfwd(p)
        \/ Tick(p)
        \/ RequestReply(p)
        \/ RequestTimeout(p)

Init == InitHTTP /\ InitRPC

Next ==
    \/ NextHTTP
    \/ NextRPC

Spec == Init /\ [][Next]_vars

\* The transport client alone, and the RPC handler alone.
SpecHTTP == Init /\ [][NextHTTP]_vars
SpecRPC == Init /\ [][NextRPC]_vars

\* The RPC handler when the implants of SilentImplants never reply.  Time
\* passes for a blocked call and the timer of sliver.Request fires.
SilentImplants == {1}
RequestReplyHeard(p) ==
    /\ calls[p].pc = "waiting"
    /\ calls[p].sent[Len(calls[p].sent)].to \notin SilentImplants
    /\ RequestReply(p)
NextRPCSilent ==
    \E p \in Calls :
        \/ CallRpcPortfwd(p)
        \/ Tick(p)
        \/ RequestReplyHeard(p)
        \/ RequestTimeout(p)
SpecRPCSilent ==
    /\ Init
    /\ [][NextRPCSilent]_vars
    /\ \A p \in Calls : WF_vars(Tick(p)) /\ WF_vars(RequestTimeout(p))

\* ------------------------------------------------------------ the claims

Established(s) == s.SessionID # "" /\ s.SessionKey # NilPtr

RequestsOf(trace) == {i \in DOMAIN trace : trace[i].ev = "request"}
DecryptsOf(trace) == {i \in DOMAIN trace : trace[i].ev = "decrypt"}
KeygensOf(trace) == {i \in DOMAIN trace : trace[i].ev = "keygen"}

\* C1: a Get or Post on a client that is not Established (empty SessionID or
\* nil SessionKey), whatever calls came before, returns the "no session"
\* error and no bytes, and sends no request.
C1_NoSessionNoRequest ==
    (last.op \in {"Get", "Post"} /\ ~Established(last.pre[1]))
        => /\ last.err = "no session"
           /\ last.out = NilBytes
           /\ RequestsOf(last.trace) = {}

\* C1 witness: a Get on a client that a failed SessionInit left with a
\* SessionKey and no SessionID was refused.
C1_Witness ==
    /\ last.op = "Get"
    /\ last.pre[1].SessionKey # NilPtr
    /\ last.pre[1].SessionID = ""
    /\ last.err = "no session"

\* The attempts of the last HTTPStartSession call.
Started == last.op = "HTTPStartSession"
Attempt(i) == last.attempts[i]
AttemptURLs(i) ==
    {Attempt(i).trace[j].url : j \in RequestsOf(Attempt(i).trace)}

\* C2: HTTPStartSession(address) makes its first handshake attempt on
\* https://address; it makes a second attempt, on http://address, exactly
\* when the first failed; if the first failed and the second succeeded it
\* returns the http client without error; if the first succeeded it returns
\* the https client and no request went to an http URL.
C2_FallbackIffEncryptedFails ==
    Started =>
        /\ Len(last.attempts) \in {1, 2}
        /\ Attempt(1).s.Origin = [scheme |-> "https", host |-> last.arg]
        /\ \A u \in AttemptURLs(1) : u.scheme = "https" /\ u.host = last.arg
        /\ (Len(last.attempts) = 2) <=> (Attempt(1).err # NoErr)
        /\ Len(last.attempts) = 2 =>
              /\ Attempt(2).s.Origin = [scheme |-> "http", host |-> last.arg]
              /\ AttemptURLs(2) # {}
              /\ \A u \in AttemptURLs(2) : u.scheme = "http" /\ u.host = last.arg
              /\ \A j \in KeygensOf(Attempt(2).trace), i \in KeygensOf(Attempt(1).trace) :
                    Attempt(2).trace[j].k > Attempt(1).trace[i].k
        /\ (Len(last.attempts) = 2 /\ Attempt(2).err = NoErr) =>
              /\ last.err = NoErr
              /\ last.client = Ptr(Attempt(2).s)
              /\ last.client[1].Origin = [scheme |-> "http", host |-> last.arg]
        /\ Attempt(1).err = NoErr =>
              /\ last.err = NoErr
              /\ last.client = Ptr(Attempt(1).s)
              /\ last.client[1].Origin = [scheme |-> "https", host |-> last.arg]

\* C2 witness: the encrypted attempt failed after sending its request and
\* the plaintext attempt succeeded.
C2_Witness ==
    /\ Started
    /\ Len(last.attempts) = 2
    /\ AttemptURLs(1) # {}
    /\ Attempt(2).err = NoErr
    /\ last.client # NilPtr
    /\ last.client[1].Origin.scheme = "http"

\* C3: when both attempts fail HTTPStartSession returns a nil client and
\* the error of the second attempt, not the error of the first.
C3_BothFailSecondError ==
    (Started /\ Len(last.attempts) = 2 /\ Attempt(2).err # NoErr) =>
        /\ last.client = NilPtr
        /\ last.err = Attempt(2).err
        /\ Attempt(1).err # Attempt(2).err => last.err # Attempt(1).err

\* C3 witness: both attempts failed, with different errors.
C3_Witness ==
    /\ Started
    /\ Len(last.attempts) = 2
    /\ Attempt(1).err # NoErr
    /\ Attempt(2).err # NoErr
    /\ Attempt(1).err # Attempt(2).err
    /\ last.client = NilPtr

\* The rpcPortfwd call p: its decoded request and what the lookups give.
Decoded(p) == protoUnmarshal(calls[p].req)
Misses(p) ==
    \/ HiveSliver(hive, Decoded(p).SliverID) = NilPtr
    \/ TunnelsTunnel(tunnels, Decoded(p).TunnelID) = NilPtr
Begun(p) == calls[p].pc # "idle"
Encodes(p) ==
    protoMarshal(PortFwdReq(Decoded(p).Host, Decoded(p).Port,
                            Decoded(p).SliverID, Decoded(p).TunnelID)).err = NoErr

\* C4 (as claimed): a dispatch whose implant or tunnel is not registered
\* has its callback invoked once with an error, sends nothing to any
\* implant and leaves both registries as they were.
C4_MissReportsNotFound ==
    \A p \in Calls :
        (Begun(p) /\ Misses(p)) =>
            /\ Len(calls[p].resp) = 1
            /\ calls[p].resp[1].err # NoErr
            /\ calls[p].sent = <<>>
            /\ hive = {[ID |-> 1], [ID |-> 2]}
            /\ tunnels = {[ID |-> 7]}

\* The handshake attempts of the last call: of SessionInit called directly,
\* or of each SessionInit made by HTTPStartSession.
SessionInits ==
    IF Started
    THEN {[pre |-> (IF i = 1 THEN httpsClient(last.arg) ELSE httpClient(last.arg)),
           s |-> Attempt(i).s, err |-> Attempt(i).err, trace |-> Attempt(i).trace] :
             i \in DOMAIN last.attempts}
    ELSE IF last.op = "SessionInit"
    THEN {[pre |-> last.pre[1], s |-> last.client[1], err |-> last.err,
           trace |-> last.trace]}
    ELSE {}

\* C5 (as claimed): after a SessionInit that failed, at whatever stage, the
\* client holds neither the SessionKey generated in that attempt nor a
\* SessionID of that attempt.
C5_FailedInitDiscardsState ==
    \A a \in SessionInits :
        a.err # NoErr =>
            /\ \A i \in KeygensOf(a.trace) : a.s.SessionKey # Ptr(a.trace[i].k)
            /\ a.s.SessionID = a.pre.SessionID

\* C6 (as claimed): when the POST to /start is answered with a status other
\* than 200, SessionInit returns an error, the body is not decrypted and no
\* SessionID is stored.
C6_StartStatusChecked ==
    \A a \in SessionInits :
        \A i \in RequestsOf(a.trace) :
            (/\ a.trace[i].url.path = "/start"
             /\ a.trace[i].resp.err = NoErr
             /\ a.trace[i].resp.StatusCode # StatusOK)
            => /\ a.err # NoErr
               /\ DecryptsOf(a.trace) = {}
               /\ a.s.SessionID = a.pre.SessionID

\* C7 (as claimed): on an Established client, when GCMEncrypt fails in
\* Post, Post returns the encryption error and sends no request.
C7_EncryptErrorReturned ==
    (last.op = "Post" /\ Established(last.pre[1]) /\ last.encFail) =>
        /\ last.err = "gcm: nonce"
        /\ RequestsOf(last.trace) = {}

\* C8 (as claimed): after SessionInit or HTTPStartSession returned nil the
\* client is Established, and no Get or Post on it is refused for want of
\* a session.
C8_SuccessMeansEstablished ==
    (last.op \in {"SessionInit", "HTTPStartSession"} /\ last.err = NoErr) =>
        /\ Established(last.client[1])
        /\ \A u \in UrlPaths, resp \in SessionResponses(last.client[1].SessionKey) :
              /\ Get(last.client[1], u, resp).err # "no session"
              /\ \A d \in PostData :
                    Post(last.client[1], u, d, FALSE, resp).err # "no session"

\* C9: on an Established client Get and Post send one request; on a
\* transport failure they return its error and no bytes; on a status other
\* than 200 they return an error and no bytes whatever the body is; in both
\* cases nothing is decrypted.  Only on status 200 is the body decrypted.
C9_OnlyStatusOKSucceeds ==
    (last.op \in {"Get", "Post"} /\ Established(last.pre[1])) =>
        /\ RequestsOf(last.trace) = {1}
        /\ LET r == last.trace[1].resp
           IN  /\ r.err # NoErr =>
                    /\ last.err = r.err
                    /\ last.out = NilBytes
                    /\ DecryptsOf(last.trace) = {}
               /\ (r.err = NoErr /\ r.StatusCode # StatusOK) =>
                    /\ last.err # NoErr
                    /\ last.out = NilBytes
                    /\ DecryptsOf(last.trace) = {}
               /\ (r.err = NoErr /\ r.StatusCode = StatusOK) =>
                    /\ DecryptsOf(last.trace) = {2}
                    /\ last.trace[2].ct = r.Body
                    /\ last.trace[2].k = last.pre[1].SessionKey[1]

\* C9 witness: a Post answered 204 with a body sealed under the session key
\* returned an error and no bytes.
C9_Witness ==
    /\ last.op = "Post"
    /\ Established(last.pre[1])
    /\ RequestsOf(last.trace) = {1}
    /\ last.trace[1].resp.StatusCode = 204
    /\ last.trace[1].resp.Body = GCMSeal(last.pre[1].SessionKey[1], "tasks")
    /\ last.err # NoErr
    /\ last.out = NilBytes

\* What C10 says of a call that forwarded its request.
ForwardedOnce(p) ==
    /\ calls[p].pc \in {"waiting", "done"}
    /\ Len(calls[p].sent) = 1
    /\ calls[p].sent[1].to = Decoded(p).SliverID
    /\ Len(calls[p].ret) = (IF calls[p].pc = "done" THEN 1 ELSE 0)
    /\ calls[p].resp = calls[p].ret

\* C10 (as claimed): every dispatch whose implant and tunnel resolve
\* forwards the request once, waits for one outcome and hands exactly that
\* (bytes, error) pair to the callback, once.
C10_AlwaysForwarded ==
    \A p \in Calls : (Begun(p) /\ ~Misses(p)) => ForwardedOnce(p)

\* C10 (amended): the same for every dispatch whose scoped request encodes;
\* when proto.Marshal fails the callback is invoked once with empty bytes
\* and the encoding error, and nothing is forwarded.
C10_ForwardedOnceOrEncodeError ==
    \A p \in Calls :
        (Begun(p) /\ ~Misses(p)) =>
            IF Encodes(p)
            THEN ForwardedOnce(p)
            ELSE /\ calls[p].pc = "done"
                 /\ calls[p].sent = <<>>
                 /\ calls[p].ret = <<>>
                 /\ Len(calls[p].resp) = 1
                 /\ calls[p].resp[1].data = Bytes("")
                 /\ calls[p].resp[1].err # NoErr

\* C10 witness: a resolved dispatch timed out and the callback received the
\* timeout error with nil bytes.
C10_Witness ==
    \E p \in Calls :
        /\ Begun(p) /\ ~Misses(p)
        /\ calls[p].pc = "done"
        /\ Len(calls[p].sent) = 1
        /\ calls[p].ret = <<[data |-> NilBytes, err |-> "timeout"]>>
        /\ calls[p].resp = calls[p].ret

\* A dispatch to a registered tunnel and a registered implant that never
\* replies.
ToSilent(p) ==
    /\ Begun(p) /\ ~Misses(p)
    /\ Decoded(p).SliverID \in SilentImplants

TimedOut(p) ==
    /\ calls[p].pc = "done"
    /\ calls[p].resp = <<[data |-> NilBytes, err |-> "timeout"]>>
    /\ calls[p].waited = rpcTimeoutTicks

\* C11 (as claimed): a dispatch to a known implant and tunnel whose implant
\* never replies ends with the timeout error handed to the callback, after
\* the whole wait.
C11_SilentEndsInTimeout ==
    \A p \in Calls : (ToSilent(p) /\ calls[p].pc = "done") => TimedOut(p)

\* C11 (amended): a dispatch to a known implant and tunnel whose scoped
\* request encodes and whose implant never replies terminates; when it has,
\* the callback received nil bytes and the timeout error, once, and the
\* whole wait had elapsed.
C11_EncodedSilentTimesOut ==
    /\ [](\A p \in Calls :
            (ToSilent(p) /\ Encodes(p)) =>
                /\ calls[p].pc \in {"waiting", "done"}
                /\ calls[p].pc = "waiting" => calls[p].resp = <<>>
                /\ calls[p].pc = "done" => TimedOut(p))
    /\ \A p \in Calls :
            (ToSilent(p) /\ Encodes(p)) ~> (calls[p].pc = "done")

\* C11 witness: a dispatch to the silent implant received the timeout error
\* after the whole wait.
C11_Witness ==
    \E p \in Calls : ToSilent(p) /\ Encodes(p) /\ TimedOut(p)

\* The keys generated in handshake attempt a, and its requests to /start.
KeysOf(a) == {a.trace[i].k : i \in KeygensOf(a.trace)}
StartsOf(a) ==
    {i \in RequestsOf(a.trace) : a.trace[i].url.path = "/start"}

\* C12: a handshake attempt that wraps a key generated that key itself,
\* before wrapping it, and it is not a key the client held before; every
\* decryption of the attempt uses that key; in HTTPStartSession the key of
\* the fallback attempt is generated after, and differs from, the key of the
\* encrypted attempt.
C12_FreshKeyPerAttempt ==
    /\ \A a \in SessionInits :
        /\ Cardinality(KeysOf(a)) <= 1
        /\ \A k \in KeysOf(a) : a.pre.SessionKey # Ptr(k)
        /\ \A i \in StartsOf(a) :
              /\ a.trace[i].body # NilBytes
              /\ a.trace[i].body[1].data.Key \in KeysOf(a)
              /\ \E j \in KeygensOf(a.trace) : j < i
        /\ \A i \in DecryptsOf(a.trace) : a.trace[i].k \in KeysOf(a)
    /\ (Started /\ Len(last.attempts) = 2) =>
          \A k1 \in KeysOf(Attempt(1)), k2 \in KeysOf(Attempt(2)) : k2 > k1

\* C12 witness: the encrypted attempt failed after wrapping its key, and the
\* fallback attempt wrapped another key and decrypted the answer with it.
C12_Witness ==
    /\ Started
    /\ Len(last.attempts) = 2
    /\ StartsOf(Attempt(1)) # {}
    /\ StartsOf(Attempt(2)) # {}
    /\ DecryptsOf(Attempt(2).trace) # {}
    /\ KeysOf(Attempt(1)) # KeysOf(Attempt(2))

\* Call a is blocked on an implant that never replies; call b is addressed
\* to implant i, which is another implant.
WaitingOnSilent(a) ==
    /\ calls[a].pc = "waiting"
    /\ calls[a].sent[1].to \in SilentImplants
ForwardedTo(b, i) ==
    /\ calls[b].pc = "waiting"
    /\ Len(calls[b].sent) = 1
    /\ calls[b].sent[1].to = i

\* C13: while a dispatch to an implant that never replies waits for its
\* timeout, however long it has waited, a dispatch to another registered
\* implant can be made and is forwarded to that implant, and a dispatch
\* already forwarded to another implant can receive that implant's reply.
C13_OtherImplantNotBlocked ==
    \A a \in Calls : \A b \in Calls \ {a} :
        WaitingOnSilent(a) =>
            /\ calls[b].pc = "idle" =>
                  \A i \in {h.ID : h \in hive} \ SilentImplants :
                      ENABLED (CallRpcPortfwd(b) /\ ForwardedTo(b, i)')
            /\ \A i \in {h.ID : h \in hive} \ SilentImplants :
                  (ForwardedTo(b, i) /\ calls[b].waited < RequestTimeoutOf(b)) =>
                      \A d \in Replies :
                          ENABLED (/\ RequestReplyHeard(b)
                                   /\ calls'[b].pc = "done"
                                   /\ calls'[b].resp =
                                        <<[data |-> Bytes(d), err |-> NoErr]>>
                                   /\ calls'[a] = calls[a])

\* C13 witness: one dispatch has waited its whole timeout on the silent
\* implant and is still blocked, and another dispatch, to another implant,
\* has returned that implant's reply.
C13_Witness ==
    \E a \in Calls : \E b \in Calls \ {a} :
        /\ WaitingOnSilent(a)
        /\ calls[a].waited = rpcTimeoutTicks
        /\ calls[b].pc = "done"
        /\ Len(calls[b].sent) = 1
        /\ calls[b].sent[1].to \notin SilentImplants
        /\ calls[b].resp = <<[data |-> Bytes("listening"), err |-> NoErr]>>

\* The last call was a Get or Post on an Established client whose request
\* was answered with status 200.
AnsweredOK ==
    /\ last.op \in {"Get", "Post"}
    /\ Established(last.pre[1])
    /\ RequestsOf(last.trace) = {1}
    /\ last.trace[1].resp.err = NoErr
    /\ last.trace[1].resp.StatusCode = StatusOK

\* The body is a ciphertext made under key and not altered since.
Genuine(body, key) == body.kind = "gcm" /\ body.k = key

\* C14: on an Established client, when the body of a 200 response does not
\* decrypt under the session key (not a ciphertext, sealed under another
\* key, or tampered with) Get and Post return an error and nil bytes; when
\* it does they return exactly its plaintext and no error; and no Get or
\* Post returns bytes in any other case.
C14_DecryptFailureYieldsNoBytes ==
    /\ AnsweredOK =>
          LET body == last.trace[1].resp.Body
              key == last.pre[1].SessionKey[1]
          IN  IF Genuine(body, key)
              THEN last.out = Bytes(body.pt) /\ last.err = NoErr
              ELSE last.out = NilBytes /\ last.err # NoErr
    /\ (last.op \in {"Get", "Post"} /\ last.out # NilBytes) => AnsweredOK

\* C14 witness: a Get was answered 200 with a tampered ciphertext of the
\* session key and returned an error and nil bytes.
C14_Witness ==
    /\ AnsweredOK
    /\ last.op = "Get"
    /\ last.trace[1].resp.Body =
          Tampered(GCMSeal(last.pre[1].SessionKey[1], "tasks"))
    /\ last.out = NilBytes
    /\ last.err # NoErr

\* C15: every message rpcPortfwd hands to sliver.Request goes to the
\* registered implant whose ID is the SliverID of the inbound request, is
\* tagged MsgPortfwdReq, and decodes to a PortFwdReq with that SliverID, the
\* TunnelID of the inbound request (a registered tunnel) and the inbound
\* Host and Port.
C15_ForwardedMessageScoped ==
    \A p \in Calls :
        \A i \in DOMAIN calls[p].sent :
            LET m == calls[p].sent[i]
                inbound == Decoded(p)
            IN  /\ m.to = inbound.SliverID
                /\ [ID |-> m.to] \in hive
                /\ [ID |-> inbound.TunnelID] \in tunnels
                /\ m.msgType = "MsgPortfwdReq"
                /\ m.data # NilBytes
                /\ protoUnmarshal(m.data) =
                      PortFwdReq(inbound.Host, inbound.Port,
                                 inbound.SliverID, inbound.TunnelID)

\* C15 witness: a request for implant 2 and tunnel 7 was forwarded to
\* implant 2.
C15_Witness ==
    \E p \in Calls :
        /\ Len(calls[p].sent) = 1
        /\ calls[p].sent[1].to = 2
        /\ Decoded(p) = PortFwdReq("10.0.0.5", 8080, 2, 7)

\* The requests of a trace that went to path.
RequestsTo(trace, path) ==
    {i \in RequestsOf(trace) : trace[i].url.path = path}

\* C16: HTTPStartSession makes one or two handshake attempts, the first on
\* the https origin and the second, if any, on the http origin, each with
\* one key fetch and at most one session request and nothing else; Get and
\* Post send at most one request, to the path they were given, generate no
\* key and fetch no certificate.
C16_NoRetryBeyondFallback ==
    /\ Started =>
        /\ Len(last.attempts) \in {1, 2}
        /\ \A i \in DOMAIN last.attempts :
              /\ Attempt(i).s.Origin.scheme = (IF i = 1 THEN "https" ELSE "http")
              /\ \A u \in AttemptURLs(i) : u.scheme = Attempt(i).s.Origin.scheme
              /\ Cardinality(RequestsTo(Attempt(i).trace, "/rsakey")) = 1
              /\ Cardinality(RequestsTo(Attempt(i).trace, "/start")) <= 1
              /\ Cardinality(RequestsOf(Attempt(i).trace)) <= 2
              /\ Cardinality(KeygensOf(Attempt(i).trace)) <= 1
    /\ last.op \in {"Get", "Post"} =>
        /\ Cardinality(RequestsOf(last.trace)) <= 1
        /\ \A i \in RequestsOf(last.trace) :
              last.trace[i].url = toURL(last.pre[1], last.arg)
        /\ KeygensOf(last.trace) = {}
        /\ last.client = last.pre
        /\ held = last.pre

\* C16 witness: both attempts of HTTPStartSession sent their key fetch and
\* their session request, and both failed.
C16_Witness ==
    /\ Started
    /\ Len(last.attempts) = 2
    /\ Cardinality(RequestsOf(Attempt(1).trace)) = 2
    /\ Cardinality(RequestsOf(Attempt(2).trace)) = 2
    /\ last.err # NoErr

\* C17: after a Get or Post, whether it succeeded or failed, the client has
\* the Origin, the SessionKey and the SessionID it had before the call, and
\* every request of the call went to that Origin.
C17_GetPostKeepSession ==
    last.op \in {"Get", "Post"} =>
        /\ held # NilPtr
        /\ held[1].Origin = last.pre[1].Origin
        /\ held[1].SessionKey = last.pre[1].SessionKey
        /\ held[1].SessionID = last.pre[1].SessionID
        /\ \A i \in RequestsOf(last.trace) :
              /\ last.trace[i].url.scheme = last.pre[1].Origin.scheme
              /\ last.trace[i].url.host = last.pre[1].Origin.host

\* C17 witness: a Get on an Established client sent its request, failed, and
\* the client is Established as before.
C17_Witness ==
    /\ last.op = "Get"
    /\ Established(last.pre[1])
    /\ RequestsOf(last.trace) # {}
    /\ last.err # NoErr
    /\ held = last.pre

\* The answer to a key fetch carries a verified key: no transport error, the
\* success status, a PEM block, and the pinned verifier accepts it.
KeyVerified(resp) ==
    /\ resp.err = NoErr
    /\ resp.StatusCode = StatusOK
    /\ pemDecode(resp.Body) # NilPtr
    /\ rootOnlyVerifyCertificate(pemDecode(resp.Body)[1]) = NoErr

\* C18: in every handshake attempt the first step is the one GET of /rsakey;
\* a session key is generated only next and only after a verified key fetch;
\* the POST to /start comes only after that, carrying that key wrapped under
\* the fetched public key; the answer is decrypted only after the POST; an
\* attempt that succeeds went through all four steps; an attempt whose key
\* fetch failed returns an error having done nothing but the fetch.
C18_HandshakeStepOrder ==
    \A a \in SessionInits :
        /\ RequestsTo(a.trace, "/rsakey") = {1}
        /\ a.trace[1].method = "GET"
        /\ \A j \in KeygensOf(a.trace) : j = 2 /\ KeyVerified(a.trace[1].resp)
        /\ \A j \in RequestsTo(a.trace, "/start") :
              /\ j = 3
              /\ a.trace[j].method = "POST"
              /\ KeyVerified(a.trace[1].resp)
              /\ KeygensOf(a.trace) = {2}
              /\ a.trace[j].body =
                    Bytes([kind |-> "rsa",
                           pub |-> a.trace[1].resp.Body.cert.PublicKey,
                           data |-> MarshalSessionInit(a.trace[2].k)])
        /\ \A j \in DecryptsOf(a.trace) :
              j = 4 /\ RequestsTo(a.trace, "/start") = {3}
        /\ a.err = NoErr =>
              /\ Len(a.trace) = 4
              /\ DecryptsOf(a.trace) = {4}
              /\ a.s.SessionKey = Ptr(a.trace[2].k)
        /\ ~KeyVerified(a.trace[1].resp) =>
              /\ a.err # NoErr
              /\ Len(a.trace) = 1
              /\ a.s = a.pre

\* C18 witness: in one HTTPStartSession the encrypted attempt stopped at a
\* certificate the verifier refused and the fallback attempt went through
\* all the steps.
C18_Witness ==
    /\ Started
    /\ Len(last.attempts) = 2
    /\ Attempt(1).trace[1].resp.err = NoErr
    /\ Attempt(1).trace[1].resp.StatusCode = StatusOK
    /\ pemDecode(Attempt(1).trace[1].resp.Body) # NilPtr
    /\ ~KeyVerified(Attempt(1).trace[1].resp)
    /\ Attempt(2).err = NoErr
    /\ Len(Attempt(2).trace) = 4

\* C19 (as claimed): a client leaves every handshake attempt with a SessionID
\* only when that attempt itself issued it under the key the client now
\* holds, or when the attempt changed neither the SessionID nor the
\* SessionKey; so the client Get and Post accept never pairs a SessionID
\* with the key of another attempt.
C19_SessionIDPairedWithItsKey ==
    \A a \in SessionInits :
        a.s.SessionID # "" =>
            \/ /\ a.err = NoErr
               /\ \E i \in KeygensOf(a.trace) : a.s.SessionKey = Ptr(a.trace[i].k)
               /\ \E j \in DecryptsOf(a.trace) :
                     /\ a.trace[j].k = a.s.SessionKey[1]
                     /\ Genuine(a.trace[j].ct, a.s.SessionKey[1])
                     /\ a.trace[j].ct.pt = a.s.SessionID
            \/ /\ a.s.SessionKey = a.pre.SessionKey
               /\ a.s.SessionID = a.pre.SessionID

\* C20: HTTPStartSession returns a client exactly when it returns no error;
\* the client returned holds a SessionKey and is the client of the last
\* attempt, which succeeded; its Origin scheme is https exactly when the
\* encrypted attempt succeeded and http exactly when the encrypted attempt
\* failed and the fallback succeeded; the client of a failed attempt is not
\* the one returned.
C20_ClientXorError ==
    Started =>
        /\ (last.client = NilPtr) <=> (last.err # NoErr)
        /\ held = last.client
        /\ last.client # NilPtr =>
              /\ last.client[1].SessionKey # NilPtr
              /\ last.client[1] = Attempt(Len(last.attempts)).s
              /\ Attempt(Len(last.attempts)).err = NoErr
              /\ (last.client[1].Origin.scheme = "https") <=> (Attempt(1).err = NoErr)
              /\ (last.client[1].Origin.scheme = "http") <=>
                    (Attempt(1).err # NoErr /\ Attempt(2).err = NoErr)
              /\ \A i \in DOMAIN last.attempts :
                    Attempt(i).err # NoErr => last.client[1] # Attempt(i).s
        /\ last.client = NilPtr =>
              \A i \in DOMAIN last.attempts : Attempt(i).err # NoErr

\* C20 witness: the encrypted attempt failed after its key was generated and
\* the fallback attempt succeeded; the http client of the fallback attempt
\* was returned, with a key other than the failed attempt's.
C20_Witness ==
    /\ Started
    /\ Len(last.attempts) = 2
    /\ Attempt(1).s.SessionKey # NilPtr
    /\ last.err = NoErr
    /\ last.client # NilPtr
    /\ last.client[1].Origin.scheme = "http"
    /\ last.client[1].SessionKey # Attempt(1).s.SessionKey

====
